---- MODULE Spec2Model ----
(***************************************************************************)
(* legacy-mm-processor: the event admission and routing pipeline of        *)
(* src/services/SubmissionService.js (handle, getSubTrack, getSubmission   *)
(* and the Joi event schema).                                              *)
(*                                                                         *)
(* JSON values are tagged records: [null |-> TRUE], [bool |-> b],          *)
(* [num |-> n], [str |-> "text"], [chars |-> <<"a","b">>], [obj |-> r].    *)
(* A number n is held in tenths (875 is 87.5) so that the non-integers     *)
(* Joi's integer() refuses exist.  A JSON string is either an opaque       *)
(* [str |-> ...] or, where the code splits, trims or looks it up in a      *)
(* list, a sequence of characters [chars |-> ...].  A key an object does   *)
(* not carry is not in the DOMAIN of its record; reading it gives          *)
(* Undefined, as in JavaScript.                                            *)
(***************************************************************************)
EXTENDS Integers, Sequences, FiniteSets, TLC

VARIABLES
  m2m,        \* whether the process was started with an m2m auth object
  pc,         \* where the current handle invocation stands (its await point)
  value,      \* the message value the current invocation was given
  submission, \* getSubTrack's local: the record its getSubmission returned
  subTrack,   \* handle's local: what getSubTrack returned
  sub,        \* handle's local: the record of the second getSubmission
  outcome,    \* how the current invocation ended: "returned" or "threw"
  requests,   \* the outbound calls of the current invocation, in order
  handled,    \* the number of handle invocations started so far
  replays,    \* how many times in a row handle was given the current value
  updates,    \* the number of legacy-store calls made so far, by all invocations
  owed,       \* the number of ended invocations whose event was a mutating one
  other       \* the locals of a second invocation, waiting at one of its awaits

vars == <<m2m, pc, value, submission, subTrack, sub, outcome, requests,
          handled, replays, updates, owed, other>>

\* ------------------------------------------------------------------ bounds

\* The number of handle invocations a behaviour runs, one after the other.
MaxEvents == 2

\* ------------------------------------------------------------- JSON values

Undefined == [undefined |-> TRUE]
Null == [null |-> TRUE]
Bool(b) == [bool |-> b]
Num(tenths) == [num |-> tenths]
Whole(n) == [num |-> n * 10]
Str(s) == [str |-> s]
Chars(s) == [chars |-> s]
Obj(r) == [obj |-> r]
Arr(s) == [arr |-> s]

IsNumber(v) == "num" \in DOMAIN v
IsString(v) == "str" \in DOMAIN v \/ "chars" \in DOMAIN v
IsObject(v) == "obj" \in DOMAIN v
IsArray(v) == "arr" \in DOMAIN v
IsUndefined(v) == "undefined" \in DOMAIN v

\* The empty string, in either representation.
IsEmptyString(v) ==
  \/ "str" \in DOMAIN v /\ v.str = ""
  \/ "chars" \in DOMAIN v /\ v.chars = <<>>

\* JavaScript's truthiness: undefined, null, false, 0 and "" are falsy.
Truthy(v) ==
  /\ ~IsUndefined(v)
  /\ "null" \notin DOMAIN v
  /\ ("bool" \in DOMAIN v => v.bool)
  /\ (IsNumber(v) => v.num # 0)
  /\ ~IsEmptyString(v)

\* o.key: Undefined unless o is an object that carries the key.
Field(o, key) ==
  IF IsObject(o) /\ key \in DOMAIN o.obj THEN o.obj[key] ELSE Undefined

\* _.get(o, 'a.b'): nil-safe, Undefined when any link of the path is missing.
Get(o, path) ==
  LET step(v, key) == Field(v, key)
      walk[i \in 0..Len(path)] ==
        IF i = 0 THEN o ELSE step(walk[i - 1], path[i])
  IN walk[Len(path)]

\* a[i] of JavaScript (zero-based): Undefined past the end or on a non-array.
At(a, i) ==
  IF IsArray(a) /\ i + 1 \in DOMAIN a.arr THEN a.arr[i + 1] ELSE Undefined

\* ------------------------------------------------------------ configuration

\* config.KAFKA_NEW_SUBMISSION_TOPIC, config.KAFKA_UPDATE_SUBMISSION_TOPIC and
\* config.KAFKA_NEW_SUBMISSION_ORIGINATOR.
KAFKA_NEW_SUBMISSION_TOPIC == "submission.notification.create"
KAFKA_UPDATE_SUBMISSION_TOPIC == "submission.notification.update"
KAFKA_NEW_SUBMISSION_ORIGINATOR == "submission-api"

MARATHON_MATCH == <<"M", "A", "R", "A", "T", "H", "O", "N", "_", "M", "A", "T", "C", "H">>
DEVELOP_MARATHON_MATCH == <<"D", "E", "V", "E", "L", "O", "P", "_">> \o MARATHON_MATCH

\* config.CHALLENGE_SUBTRACK, the text "MARATHON_MATCH, DEVELOP_MARATHON_MATCH".
CHALLENGE_SUBTRACK == MARATHON_MATCH \o <<",", " ">> \o DEVELOP_MARATHON_MATCH

\* Two review type ids (UUIDs in a deployment, shortened here).
TYPE_PROVISIONAL == <<"c", "5", "6", "a">>
TYPE_FINAL == <<"5", "5", "b", "b">>

\* config.PAYLOAD_TYPES, the text "c56a, 55bb".
PAYLOAD_TYPES == TYPE_PROVISIONAL \o <<",", " ">> \o TYPE_FINAL

\* ---------------------------------------------------------- string helpers

WhiteSpace == {" ", "\t", "\n", "\r"}

\* String.prototype.trim: the text without its leading and trailing white space.
RECURSIVE TrimStart(_)
TrimStart(s) ==
  IF s # <<>> /\ Head(s) \in WhiteSpace THEN TrimStart(Tail(s)) ELSE s

RECURSIVE TrimEnd(_)
TrimEnd(s) ==
  IF s # <<>> /\ s[Len(s)] \in WhiteSpace
  THEN TrimEnd(SubSeq(s, 1, Len(s) - 1))
  ELSE s

Trim(s) == TrimEnd(TrimStart(s))

\* String.prototype.split(','): the pieces between the commas, the empty text
\* giving one empty piece.
RECURSIVE Split(_)
Split(s) ==
  IF \E i \in DOMAIN s : s[i] = ","
  THEN LET i == CHOOSE j \in DOMAIN s :
                  s[j] = "," /\ \A k \in 1..(j - 1) : s[k] # ","
       IN <<SubSeq(s, 1, i - 1)>> \o Split(SubSeq(s, i + 1, Len(s)))
  ELSE <<s>>

\* list.map(x => x.trim())
MapTrim(list) == [i \in DOMAIN list |-> Trim(list[i])]

\* Array.prototype.includes(v) on a list of texts: v must be a string equal to
\* one of them.
Includes(list, v) ==
  "chars" \in DOMAIN v /\ \E i \in DOMAIN list : list[i] = v.chars

\* ------------------------------------------------------------- eventSchema

\* Texts the formats of the schema accept: a date Joi.date() can convert, a
\* UUID Joi.string().uuid() accepts, a URI Joi.string().uri() accepts.
DateTexts == {"2020-01-01T00:00:00Z"}
UuidTexts == {"a12bc280-65ab-4e2c-bd1a-d8e7a1b2c3d4"}
UriTexts == {"https://s3.example.com/submission.zip"}

\* Joi.string(): a string, and not the empty one.
JoiString(v) == IsString(v) /\ ~IsEmptyString(v)

\* Joi.number().integer()
JoiInteger(v) == IsNumber(v) /\ v.num % 10 = 0

\* Joi.id = () => Joi.number().integer().positive().required()
JoiId(v) == JoiInteger(v) /\ v.num > 0

\* Joi.string().uuid(), Joi.date(), Joi.string().uri()
JoiUuid(v) == "str" \in DOMAIN v /\ v.str \in UuidTexts
JoiDate(v) == IsNumber(v) \/ ("str" \in DOMAIN v /\ v.str \in DateTexts)
JoiUri(v) == "str" \in DOMAIN v /\ v.str \in UriTexts

\* payload.id: Joi.alternatives().try(Joi.id(), Joi.string().uuid())
JoiPayloadId(v) == JoiId(v) \/ JoiUuid(v)

\* payload.resource: one of the three resource names.
JoiResource(v) == v \in {Str("submission"), Str("review"), Str("reviewSummation")}

\* payload.isExample: Joi.number().integer().valid(0, 1)
JoiIsExample(v) == JoiInteger(v) /\ v.num \in {0, 10}

\* The score rule without its maximum.
JoiScore_NoMaximum(v) == IsNumber(v) /\ v.num >= 0

\* payload.score: Joi.number().min(0).max(100)
JoiScore(v) == IsNumber(v) /\ v.num >= 0 /\ v.num <= 1000

\* payload.metadata: an object with a required string testType.
JoiMetadata(v) ==
  IsObject(v) /\ "testType" \in DOMAIN v.obj /\ JoiString(v.obj["testType"])

\* The key, when its value v breaks the schema: a required key is missing or
\* ill-typed (ok is whether v has the type), an optional key is present and
\* ill-typed.
Required(key, v, ok) == IF ~IsUndefined(v) /\ ok THEN {} ELSE {key}
Optional(key, v, ok) == IF ~IsUndefined(v) /\ ~ok THEN {key} ELSE {}

\* The payload keys of the schema; payload is .unknown(true), so its other
\* keys are let through.
payloadErrors(payload) ==
  LET at(key) == Field(payload, key)
  IN IF ~IsObject(payload) THEN {"payload"}
     ELSE Required("id", at("id"), JoiPayloadId(at("id")))
          \cup Optional("resource", at("resource"), JoiResource(at("resource")))
          \cup Optional("challengeId", at("challengeId"), JoiId(at("challengeId")))
          \cup Optional("memberId", at("memberId"), JoiId(at("memberId")))
          \cup Optional("submissionPhaseId", at("submissionPhaseId"),
                        JoiId(at("submissionPhaseId")))
          \cup Optional("url", at("url"), JoiUri(at("url")))
          \cup Optional("type", at("type"), JoiString(at("type")))
          \cup Optional("legacySubmissionId", at("legacySubmissionId"),
                        JoiId(at("legacySubmissionId")))
          \cup Optional("isExample", at("isExample"), JoiIsExample(at("isExample")))
          \cup Optional("typeId", at("typeId"), JoiString(at("typeId")))
          \cup Optional("score", at("score"), JoiScore(at("score")))
          \cup Optional("metadata", at("metadata"), JoiMetadata(at("metadata")))

\* Joi.validate(event, eventSchema, { abortEarly: false, stripUnknown: true }):
\* validationResult.error.details, every broken key (abortEarly: false); keys
\* the top level does not name are no error (stripUnknown: true).
eventSchema(event) ==
  LET at(key) == Field(event, key)
  IN IF ~IsObject(event) THEN {"value"}
     ELSE Required("topic", at("topic"), JoiString(at("topic")))
          \cup Required("originator", at("originator"), JoiString(at("originator")))
          \cup Required("timestamp", at("timestamp"), JoiDate(at("timestamp")))
          \cup Required("mime-type", at("mime-type"), JoiString(at("mime-type")))
          \cup (IF IsUndefined(at("payload")) THEN {"payload"}
                ELSE payloadErrors(at("payload")))

\* ------------------------------------------------------------ message values

\* A message value is no value at all (null), a text that is not JSON (the
\* empty text among them), or the text of a JSON value.
NoValue == [novalue |-> TRUE]
Text(t) == [text |-> t]
Json(v) == [json |-> v]

\* key: v, or nothing when v is Undefined.
Opt(key, v) == IF IsUndefined(v) THEN <<>> ELSE key :> v

With(o, key, v) == Obj((key :> v) @@ o.obj)
Without(o, key) == Obj([k \in DOMAIN o.obj \ {key} |-> o.obj[k]])

Payload(resource, typeId) ==
  Obj([id |-> Whole(42), submissionId |-> Whole(42), score |-> Num(955),
       aggregateScore |-> Num(875)]
      @@ Opt("resource", resource) @@ Opt("typeId", typeId))

Event(topic, originator, payload) ==
  Obj([topic |-> Str(topic), originator |-> Str(originator),
       timestamp |-> Str("2020-01-01T00:00:00Z"), payload |-> payload]
      @@ ("mime-type" :> Str("application/json")))

Topics ==
  {KAFKA_NEW_SUBMISSION_TOPIC, KAFKA_UPDATE_SUBMISSION_TOPIC,
   "submission.notification.delete"}
Originators == {KAFKA_NEW_SUBMISSION_ORIGINATOR, "review-api"}
Resources ==
  {Undefined, Str("submission"), Str("review"), Str("reviewSummation")}
TYPE_OTHER == <<"f", "2", "8", "b">>
ReviewTypeIds ==
  {Undefined, Chars(TYPE_PROVISIONAL), Chars(TYPE_FINAL),
   Chars(<<" ">> \o TYPE_FINAL), Chars(TYPE_OTHER)}

\* Events the schema accepts: every topic, originator and resource, the
\* review events with every type id.
RoutedEvents ==
  {Event(t, o, Payload(r, ty)) :
     t \in Topics, o \in Originators,
     r \in Resources, ty \in {Undefined, Chars(TYPE_FINAL)}}
  \cup {Event(t, KAFKA_NEW_SUBMISSION_ORIGINATOR, Payload(Str("review"), ty)) :
          t \in Topics, ty \in ReviewTypeIds}

\* Two events that end in a store update when the services answer well.
ReviewEvent ==
  Event(KAFKA_NEW_SUBMISSION_TOPIC, KAFKA_NEW_SUBMISSION_ORIGINATOR,
        Payload(Str("review"), Chars(TYPE_FINAL)))
SummationEvent ==
  Event(KAFKA_NEW_SUBMISSION_TOPIC, KAFKA_NEW_SUBMISSION_ORIGINATOR,
        Payload(Str("reviewSummation"), Undefined))

\* e with the value at payload.key replaced, or removed.
WithPayload(e, key, v) == With(e, "payload", With(e.obj["payload"], key, v))
WithoutPayload(e, key) == With(e, "payload", Without(e.obj["payload"], key))

\* The event e with the schema broken in one place, or in two.
Defects(e) ==
  {Without(e, "topic"), Without(e, "originator"), Without(e, "timestamp"),
   Without(e, "mime-type"), Without(e, "payload"),
   With(e, "topic", Whole(7)), With(e, "originator", Str("")),
   With(e, "timestamp", Str("yesterday")), With(e, "payload", Str("review")),
   With(e, "payload", Null),
   WithoutPayload(e, "id"), WithPayload(e, "id", Whole(0)),
   WithPayload(e, "id", Whole(-3)), WithPayload(e, "id", Num(425)),
   WithPayload(e, "id", Str("forty-two")), WithPayload(e, "id", Null),
   WithPayload(e, "resource", Str("appeal")),
   WithPayload(e, "resource", Whole(1)),
   WithPayload(e, "score", Num(1001)), WithPayload(e, "score", Num(-1)),
   WithPayload(e, "score", Str("high")),
   WithPayload(e, "typeId", Whole(5)), WithPayload(e, "isExample", Whole(2)),
   WithPayload(e, "legacySubmissionId", Whole(0)),
   WithPayload(e, "metadata", Obj([assertion |-> Str("x")])),
   WithoutPayload(WithPayload(e, "score", Num(1001)), "id")}

\* The event e with a change the schema lets through.
Tolerated(e) ==
  {With(e, "timestamp", Whole(15778368)),
   With(e, "key", Str("unknown top-level key")),
   WithPayload(e, "id", Str("a12bc280-65ab-4e2c-bd1a-d8e7a1b2c3d4")),
   WithPayload(e, "score", Whole(0)), WithPayload(e, "score", Whole(100)),
   WithPayload(e, "isExample", Whole(1)),
   WithPayload(e, "metadata", Obj([testType |-> Str("provisional")])),
   WithoutPayload(e, "submissionId"), WithoutPayload(e, "aggregateScore")}

JsonValues ==
  RoutedEvents
  \cup Defects(ReviewEvent) \cup Defects(SummationEvent)
  \cup Tolerated(ReviewEvent) \cup Tolerated(SummationEvent)
  \cup {Null, Bool(FALSE), Bool(TRUE), Whole(0), Whole(42), Str(""),
        Str("review"), Arr(<<>>), Obj(<<>>)}

Values ==
  {NoValue, Text(""), Text("{\"topic\":")} \cup {Json(v) : v \in JsonValues}

\* ------------------------------------------------- the services' answers

\* An awaited call is pending, then answered with data or with an error: the
\* server answered outside 2xx ("response"), the request got no answer, a
\* timeout included ("request"), or the call failed before it was sent.
Pending == [pending |-> TRUE]
Data(d) == [data |-> d]
Failed(kind) == [error |-> kind]
Failures == {Failed("response"), Failed("request"), Failed("other")}

\* GET /submissions/{id}: a submission record.
SubmissionRecords ==
  {Obj([id |-> Whole(42), challengeId |-> Whole(30054),
        legacySubmissionId |-> Whole(9001)]),
   Obj([id |-> Whole(42), challengeId |-> Whole(30054)]),
   Obj([id |-> Whole(42), legacySubmissionId |-> Whole(9002)])}
SubmissionAnswers == {Data(r) : r \in SubmissionRecords} \cup Failures

\* GET CHALLENGE_INFO_API: {result: {content: [{subTrack, ...}]}}, or less.
ChallengeBody(first) == Obj([result |-> Obj([content |-> Arr(<<first>>)])])
CODE == <<"C", "O", "D", "E">>
ChallengeBodies ==
  {ChallengeBody(Obj([subTrack |-> Chars(t)])) :
     t \in {MARATHON_MATCH, DEVELOP_MARATHON_MATCH,
            <<" ">> \o DEVELOP_MARATHON_MATCH, CODE, <<>>}}
  \cup {ChallengeBody(Obj([track |-> Str("DATA_SCIENCE")])),
        Obj([result |-> Obj([content |-> Arr(<<>>)])]),
        Obj([result |-> Obj([success |-> Bool(FALSE)])]),
        Obj(<<>>)}
ChallengeAnswers == {Data(b) : b \in ChallengeBodies} \cup Failures

\* m2m.getMachineToken and the two store updates: done, or failed.
TokenAnswers == {Data(Str("token")), Failed("other")}
StoreAnswers == {Data(Undefined), Failed("other")}

\* The log of calls with the last one, the awaited one, answered.
Answered(reqs, answer) == [reqs EXCEPT ![Len(reqs)].answer = answer]

\* ------------------------------------------------------------------ history

\* What the services' answers make of an event, read off the message value
\* and the answered calls alone.
AllowedSubTracks == {Chars(MARATHON_MATCH), Chars(DEVELOP_MARATHON_MATCH)}
AllowedTypeIds == {Chars(TYPE_PROVISIONAL), Chars(TYPE_FINAL)}

\* The answered calls of the log to one service.
CallsTo(reqs, call) == {i \in DOMAIN reqs : reqs[i].call = call}

\* The SubTrack the challenge service answered with, Undefined when it was
\* not asked or gave none.
AnsweredSubTrack(reqs) ==
  IF \E i \in CallsTo(reqs, "GET challenge") : \E t \in AllowedSubTracks :
       reqs[i].answer = Data(ChallengeBody(Obj([subTrack |-> t])))
  THEN (CHOOSE t \in AllowedSubTracks :
          \E i \in CallsTo(reqs, "GET challenge") :
            reqs[i].answer = Data(ChallengeBody(Obj([subTrack |-> t]))))
  ELSE Undefined

\* The event of a message value the schema accepts, with an accepted topic
\* and the configured originator.
IsEvent(v) == "json" \in DOMAIN v /\ IsObject(v.json) /\ eventSchema(v.json) = {}
Admitted(v) ==
  /\ IsEvent(v)
  /\ v.json.obj.topic \in
       {Str(KAFKA_NEW_SUBMISSION_TOPIC), Str(KAFKA_UPDATE_SUBMISSION_TOPIC)}
  /\ v.json.obj.originator = Str(KAFKA_NEW_SUBMISSION_ORIGINATOR)
ResourceOf(v) == Field(v.json.obj.payload, "resource")
TypeIdOf(v) == Field(v.json.obj.payload, "typeId")

\* The second submission fetch, the one after the challenge request, gave a
\* record with a legacySubmissionId.
HasLegacyId(reqs) ==
  \E i \in CallsTo(reqs, "GET /submissions") :
    /\ \E j \in CallsTo(reqs, "GET challenge") : j < i
    /\ "data" \in DOMAIN reqs[i].answer
    /\ "legacySubmissionId" \in DOMAIN reqs[i].answer.data.obj

\* A mutating event: with these answers the pipeline owes it a store update.
ScoringReview(v, reqs) ==
  /\ Admitted(v)
  /\ ResourceOf(v) = Str("review")
  /\ TypeIdOf(v) \in AllowedTypeIds
  /\ AnsweredSubTrack(reqs) \in AllowedSubTracks
ScoringSummation(v, reqs) ==
  /\ Admitted(v)
  /\ v.json.obj.topic = Str(KAFKA_NEW_SUBMISSION_TOPIC)
  /\ ResourceOf(v) = Str("reviewSummation")
  /\ AnsweredSubTrack(reqs) \in AllowedSubTracks
  /\ HasLegacyId(reqs)
Scoring(v, reqs) == ScoringReview(v, reqs) \/ ScoringSummation(v, reqs)

\* ------------------------------------------------------------------- handle

\* if (!value): null, undefined and the empty text.
NoMessage(v) == "novalue" \in DOMAIN v \/ ("text" \in DOMAIN v /\ v.text = "")

\* JSON.parse(value) throws: the text is not JSON.
ParseThrows(v) == "json" \notin DOMAIN v

\* if (!event): the text is JSON for null, false, 0 or "".
NoEvent(event) == ~Truthy(event)

\* if (validationResult.error)
Invalid(event) == eventSchema(event) # {}

\* The topic is neither of the two configured ones.
OtherTopic(event) ==
  /\ Field(event, "topic") # Str(KAFKA_NEW_SUBMISSION_TOPIC)
  /\ Field(event, "topic") # Str(KAFKA_UPDATE_SUBMISSION_TOPIC)

\* The originator left unchecked.
OtherOriginator_Unchecked(event) == FALSE

\* The originator is not the configured one.
OtherOriginator(event) ==
  Field(event, "originator") # Str(KAFKA_NEW_SUBMISSION_ORIGINATOR)

\* handle without the drop of line 159: 'submission' events go on to the
\* enrichment.
SubmissionResource_Unchecked(event) == FALSE

\* event.payload.resource === 'submission'
SubmissionResource(event) ==
  Field(Field(event, "payload"), "resource") = Str("submission")

\* The checks handle makes before its first await, in order: the message is
\* skipped when one of them says so.
Skipped(v) ==
  \/ NoMessage(v)
  \/ ParseThrows(v)
  \/ NoEvent(v.json)
  \/ Invalid(v.json)
  \/ OtherTopic(v.json)
  \/ OtherOriginator(v.json)
  \/ SubmissionResource(v.json)

\* The list of SubTracks split but not trimmed.
challangeSubtracks_Untrimmed == Split(CHALLENGE_SUBTRACK)

\* config.CHALLENGE_SUBTRACK.split(',').map(x => x.trim())
challangeSubtracks == MapTrim(Split(CHALLENGE_SUBTRACK))

\* The filter without the membership test: any SubTrack passes.
IsMM_AnySubTrack(st) == Truthy(st)

\* subTrack && challangeSubtracks.includes(subTrack)
IsMM(st) == Truthy(st) /\ Includes(challangeSubtracks, st)

\* The list of type ids split but not trimmed.
payloadTypes_Untrimmed == Split(PAYLOAD_TYPES)

\* config.PAYLOAD_TYPES.split(',').map(x => x.trim())
payloadTypes == MapTrim(Split(PAYLOAD_TYPES))

\* The review branch of line 173 taking an event without a resource for a
\* review.
IsReview_OrNoResource(event) ==
  LET resource == Field(Field(event, "payload"), "resource")
  IN ~Truthy(resource) \/ resource = Str("review")

\* event.payload.resource && event.payload.resource === 'review'
IsReview(event) ==
  LET resource == Field(Field(event, "payload"), "resource")
  IN Truthy(resource) /\ resource = Str("review")

\* The type id test without the membership: any type id passes.
ValidTypeId_AnyTypeId(event) ==
  Truthy(Field(Field(event, "payload"), "typeId"))

\* event.payload.typeId && payloadTypes.includes(event.payload.typeId)
ValidTypeId(event) ==
  LET typeId == Field(Field(event, "payload"), "typeId")
  IN Truthy(typeId) /\ Includes(payloadTypes, typeId)

\* event.payload.resource && event.payload.resource === 'reviewSummation'
IsReviewSummation(event) ==
  LET resource == Field(Field(event, "payload"), "resource")
  IN Truthy(resource) /\ resource = Str("reviewSummation")

\* The summation branch of line 181 without its test of the topic.
NewTopic_AnyTopic(event) == TRUE

\* event.topic === config.KAFKA_NEW_SUBMISSION_TOPIC
NewTopic(event) == Field(event, "topic") = Str(KAFKA_NEW_SUBMISSION_TOPIC)

\* _.get(result.data, 'result.content[0].subTrack')
SubTrackOf(data) ==
  Get(At(Get(data, <<"result", "content">>), 0), <<"subTrack">>)

\* Reading a property of undefined or null throws a TypeError.
Nullish(v) == IsUndefined(v) \/ "null" \in DOMAIN v

\* The await points of handle: in getSubTrack's getSubmission (the token, the
\* submission), in getSubTrack (the challenge), in handle's own getSubmission,
\* and the two store updates.
TokenPc(where) ==
  IF where = "getSubTrack" THEN "getSubTrack.token" ELSE "handle.token"
SubmissionPc(where) ==
  IF where = "getSubTrack" THEN "getSubTrack.submission" ELSE "handle.submission"

TokenRequest == [call |-> "getMachineToken", answer |-> Pending]
SubmissionRequest(id) ==
  [call |-> "GET /submissions", id |-> id, bearer |-> m2m, answer |-> Pending]
ChallengeRequest(cid) == [call |-> "GET challenge", cid |-> cid, answer |-> Pending]
\* The review-score call handed the event cut down to the keys eventSchema
\* names, at the top level and in the payload.
ReviewScoreUpdate_Stripped(event) ==
  LET keys == {"topic", "originator", "timestamp", "mime-type", "payload"}
      payloadKeys == {"id", "resource", "challengeId", "memberId",
                      "submissionPhaseId", "url", "type", "legacySubmissionId",
                      "isExample", "typeId", "score", "metadata"}
      payload == Field(event, "payload")
      kept == Obj([k \in DOMAIN payload.obj \cap payloadKeys |-> payload.obj[k]])
  IN [call |-> "updateReviewScore",
      event |-> Obj([k \in DOMAIN event.obj \cap keys |->
                       IF k = "payload" THEN kept ELSE event.obj[k]]),
      answer |-> Pending]

ReviewScoreUpdate(event) ==
  [call |-> "updateReviewScore", event |-> event, answer |-> Pending]
\* The final-score call with its id and score arguments in each other's place.
FinalScoreUpdate_Swapped(legacySubmissionId, reviewScore) ==
  [call |-> "LegacySubmissionIdService.updateReviewScore",
   legacySubmissionId |-> reviewScore, score |-> legacySubmissionId,
   field |-> "finalScore", answer |-> Pending]

FinalScoreUpdate(legacySubmissionId, reviewScore) ==
  [call |-> "LegacySubmissionIdService.updateReviewScore",
   legacySubmissionId |-> legacySubmissionId, score |-> reviewScore,
   field |-> "finalScore", answer |-> Pending]

\* handle returns, or throws to its caller.
Ends(how, v, reqs, st, sb) ==
  /\ pc' = "done"
  /\ outcome' = how
  /\ requests' = reqs
  /\ submission' = Undefined
  /\ subTrack' = st
  /\ sub' = sb
  /\ updates' = updates
  /\ owed' = IF Scoring(v, reqs) THEN owed + 1 ELSE owed

Returns(v, reqs, st, sb) == Ends("returned", v, reqs, st, sb)

\* getSubTrack remembering the message of the invocation before: delivered
\* again, its submission is not fetched anew and the event is dropped.
CallGetSubmission_Remembered(where, v, reqs, st) ==
  IF where = "getSubTrack" /\ handled > 0 /\ v = value
  THEN Ends("returned", v, reqs, st, Undefined)
  ELSE /\ pc' = IF m2m THEN TokenPc(where) ELSE SubmissionPc(where)
       /\ requests' =
            Append(reqs,
                   IF m2m THEN TokenRequest
                   ELSE SubmissionRequest(Get(v.json, <<"payload", "submissionId">>)))
       /\ outcome' = "pending"
       /\ submission' = Undefined
       /\ subTrack' = st
       /\ sub' = Undefined
       /\ UNCHANGED <<updates, owed>>

\* getSubmission, lines 47-62: the token when there is an m2m, then the GET.
CallGetSubmission(where, v, reqs, st) ==
  /\ pc' = IF m2m THEN TokenPc(where) ELSE SubmissionPc(where)
  /\ requests' =
       Append(reqs,
              IF m2m THEN TokenRequest
              ELSE SubmissionRequest(Get(v.json, <<"payload", "submissionId">>)))
  /\ outcome' = "pending"
  /\ submission' = Undefined
  /\ subTrack' = st
  /\ sub' = Undefined
  /\ UNCHANGED <<updates, owed>>

\* A store update that is left out for a message delivered again.
CallStore_Deduplicated(at, request, reqs, st, sb) ==
  IF replays > 1
  THEN Ends("returned", value, reqs, st, sb)
  ELSE /\ pc' = at
       /\ requests' = Append(reqs, request)
       /\ updates' = updates + 1
       /\ outcome' = "pending"
       /\ submission' = Undefined
       /\ subTrack' = st
       /\ sub' = sb
       /\ owed' = owed

\* A store update is called and awaited.
CallStore(at, request, reqs, st, sb) ==
  /\ pc' = at
  /\ requests' = Append(reqs, request)
  /\ updates' = updates + 1
  /\ outcome' = "pending"
  /\ submission' = Undefined
  /\ subTrack' = st
  /\ sub' = sb
  /\ owed' = owed

\* handle without the test of line 187: the update is called whatever the
\* record carries.
HandleWithSubmission_Unchecked(v, result, reqs, st) ==
  IF Nullish(result)
  THEN Ends("TypeError", v, reqs, st, result)
  ELSE CallStore("updateFinalScore",
                 FinalScoreUpdate(Field(result, "legacySubmissionId"),
                                  Get(v.json, <<"payload", "aggregateScore">>)),
                 reqs, st, result)

\* handle, lines 186-193: with the record of its own getSubmission.
HandleWithSubmission(v, result, reqs, st) ==
  IF Nullish(result)
  THEN Ends("TypeError", v, reqs, st, result)
  ELSE IF ~Truthy(Field(result, "legacySubmissionId"))
  THEN Ends("legacySubmissionId not found", v, reqs, st, result)
  ELSE CallStore("updateFinalScore",
                 FinalScoreUpdate(Field(result, "legacySubmissionId"),
                                  Get(v.json, <<"payload", "aggregateScore">>)),
                 reqs, st, result)

\* handle, lines 166-185: with the subTrack getSubTrack returned.
HandleWithSubTrack(v, st, reqs) ==
  IF ~IsMM(st)
  THEN Returns(v, reqs, st, Undefined)
  ELSE IF IsReview(v.json)
  THEN IF ValidTypeId(v.json)
       THEN CallStore("updateReviewScore", ReviewScoreUpdate(v.json),
                      reqs, st, Undefined)
       ELSE Returns(v, reqs, st, Undefined)
  ELSE IF IsReviewSummation(v.json) /\ NewTopic(v.json)
  THEN CallGetSubmission("handle", v, reqs, st)
  ELSE Returns(v, reqs, st, Undefined)

\* getSubTrack reading the challengeId with _.get: without a record the
\* challenge request is sent all the same, for no challenge.
GetSubTrackWithSubmission_Unguarded(v, result, reqs) ==
  /\ pc' = "getSubTrack.challenge"
  /\ requests' = Append(reqs, ChallengeRequest(Field(result, "challengeId")))
  /\ submission' = result
  /\ outcome' = "pending"
  /\ subTrack' = Undefined
  /\ sub' = Undefined
  /\ UNCHANGED <<updates, owed>>

\* getSubTrack, lines 88-109: with the record getSubmission returned.  Reading
\* challengeId of no record throws, the catch logs it and getSubTrack returns
\* undefined.
GetSubTrackWithSubmission(v, result, reqs) ==
  IF Nullish(result)
  THEN HandleWithSubTrack(v, Undefined, reqs)
  ELSE /\ pc' = "getSubTrack.challenge"
       /\ requests' = Append(reqs, ChallengeRequest(Field(result, "challengeId")))
       /\ submission' = result
       /\ outcome' = "pending"
       /\ subTrack' = Undefined
       /\ sub' = Undefined
       /\ UNCHANGED <<updates, owed>>

\* getSubmission asking once more after the first call of the invocation that
\* failed.
GetSubmissionReturns_Retried(where, v, result, reqs) ==
  IF /\ IsUndefined(result)
     /\ Cardinality({i \in DOMAIN reqs : "error" \in DOMAIN reqs[i].answer}) = 1
  THEN CallGetSubmission(where, v, reqs, subTrack)
  ELSE IF where = "getSubTrack"
  THEN GetSubTrackWithSubmission(v, result, reqs)
  ELSE HandleWithSubmission(v, result, reqs, subTrack)

\* getSubmission returns to its caller: result is the record, or undefined
\* after the catch of lines 66-78.
GetSubmissionReturns(where, v, result, reqs) ==
  IF where = "getSubTrack"
  THEN GetSubTrackWithSubmission(v, result, reqs)
  ELSE HandleWithSubmission(v, result, reqs, subTrack)

\* ------------------------------------------------------------------ actions

\* The locals of an invocation of handle, and those of none.
Locals ==
  [pc |-> pc, value |-> value, submission |-> submission, subTrack |-> subTrack,
   sub |-> sub, outcome |-> outcome, requests |-> requests]
NoInvocation ==
  [pc |-> "idle", value |-> NoValue, submission |-> Undefined,
   subTrack |-> Undefined, sub |-> Undefined, outcome |-> "pending",
   requests |-> <<>>]

Init ==
  /\ m2m \in BOOLEAN
  /\ pc = "idle"
  /\ value = NoValue
  /\ submission = Undefined
  /\ subTrack = Undefined
  /\ sub = Undefined
  /\ outcome = "pending"
  /\ requests = <<>>
  /\ handled = 0
  /\ replays = 0
  /\ updates = 0
  /\ owed = 0
  /\ other = NoInvocation

\* handle(value, db, m2m, ...) is called with the next message, the one
\* before it having ended: lines 120-165, up to the first await.
Handle(v) ==
  /\ pc = "idle"
  /\ handled < MaxEvents
  /\ value' = v
  /\ handled' = handled + 1
  /\ replays' = IF handled > 0 /\ v = value THEN replays + 1 ELSE 1
  /\ m2m' = m2m
  /\ other' = other
  /\ IF Skipped(v)
     THEN Returns(v, <<>>, Undefined, Undefined)
     ELSE CallGetSubmission("getSubTrack", v, <<>>, Undefined)

\* m2m.getMachineToken answers, line 57: with the token the GET is sent, and
\* a failure is caught at line 66.
TokenAnswer(where) ==
  /\ pc = TokenPc(where)
  /\ UNCHANGED <<m2m, value, handled, replays, other>>
  /\ \E answer \in TokenAnswers :
       LET reqs == Answered(requests, answer)
       IN IF "data" \in DOMAIN answer
          THEN /\ pc' = SubmissionPc(where)
               /\ requests' =
                    Append(reqs,
                           SubmissionRequest(
                             Get(value.json, <<"payload", "submissionId">>)))
               /\ UNCHANGED <<submission, subTrack, sub, outcome, updates, owed>>
          ELSE GetSubmissionReturns(where, value, Undefined, reqs)

\* axios.get(`/submissions/${submissionId}`) answers, line 62: sub.data is
\* returned, and a failure is caught at line 66.
SubmissionAnswer(where) ==
  /\ pc = SubmissionPc(where)
  /\ UNCHANGED <<m2m, value, handled, replays, other>>
  /\ \E answer \in SubmissionAnswers :
       GetSubmissionReturns(
         where, value,
         IF "data" \in DOMAIN answer THEN answer.data ELSE Undefined,
         Answered(requests, answer))

\* Axios.get(config.CHALLENGE_INFO_API...) answers, line 92: the subTrack of
\* the body is returned, and a failure is caught at line 95.
ChallengeAnswer ==
  /\ pc = "getSubTrack.challenge"
  /\ UNCHANGED <<m2m, value, handled, replays, other>>
  /\ \E answer \in ChallengeAnswers :
       HandleWithSubTrack(
         value,
         IF "data" \in DOMAIN answer THEN SubTrackOf(answer.data) ELSE Undefined,
         Answered(requests, answer))

\* The review-score update awaited inside a catch that logs the failure:
\* handle returns either way.
ReviewScoreAnswer_Swallowed ==
  /\ pc = "updateReviewScore"
  /\ UNCHANGED <<m2m, value, handled, replays, other>>
  /\ \E answer \in StoreAnswers :
       Ends("returned", value, Answered(requests, answer), subTrack, sub)

\* updateReviewScore(Axios, m2m, event, db) answers, line 177: handle returns,
\* or the failure leaves handle.
ReviewScoreAnswer ==
  /\ pc = "updateReviewScore"
  /\ UNCHANGED <<m2m, value, handled, replays, other>>
  /\ \E answer \in StoreAnswers :
       Ends(IF "data" \in DOMAIN answer THEN "returned" ELSE "store error",
            value, Answered(requests, answer), subTrack, sub)

\* handle going on from the final-score update to the review-score update,
\* the two branches not excluding each other.
FinalScoreAnswer_ThenReviewScore ==
  /\ pc = "updateFinalScore"
  /\ UNCHANGED <<m2m, value, handled, replays, other>>
  /\ \E answer \in StoreAnswers :
       IF "data" \in DOMAIN answer
       THEN CallStore("updateReviewScore", ReviewScoreUpdate(value.json),
                      Answered(requests, answer), subTrack, sub)
       ELSE Ends("store error", value, Answered(requests, answer), subTrack, sub)

\* LegacySubmissionIdService.updateReviewScore(...) answers, line 191.
FinalScoreAnswer ==
  /\ pc = "updateFinalScore"
  /\ UNCHANGED <<m2m, value, handled, replays, other>>
  /\ \E answer \in StoreAnswers :
       Ends(IF "data" \in DOMAIN answer THEN "returned" ELSE "store error",
            value, Answered(requests, answer), subTrack, sub)

\* The promise handle returned has settled and its caller, the consumer of
\* the topic, is ready for the next message: nothing of the invocation is left
\* but its message, which may be delivered again.
Settled ==
  /\ pc = "done"
  /\ pc' = "idle"
  /\ submission' = Undefined
  /\ subTrack' = Undefined
  /\ sub' = Undefined
  /\ outcome' = "pending"
  /\ requests' = <<>>
  /\ UNCHANGED <<m2m, value, handled, replays, updates, owed, other>>

Next ==
  \/ \E v \in Values : Handle(v)
  \/ \E where \in {"getSubTrack", "handle"} : TokenAnswer(where)
  \/ \E where \in {"getSubTrack", "handle"} : SubmissionAnswer(where)
  \/ ChallengeAnswer
  \/ ReviewScoreAnswer
  \/ FinalScoreAnswer
  \/ Settled

Spec == Init /\ [][Next]_vars

\* Two events of one submission, for handle called again before it has ended.
InterleavedValues == {Json(ReviewEvent), Json(SummationEvent)}

\* handle is an async function: while one invocation waits at an await the
\* caller may call handle again, and the answers to the two invocations come
\* in any order.  The invocation that runs next changes places with the one
\* that waits; one that has ended leaves nothing behind.
Switch ==
  /\ pc \notin {"idle", "done"} \/ other.pc # "idle"
  /\ pc \notin {"idle", "done"} => value \in InterleavedValues
  /\ other' = IF pc \in {"idle", "done"} THEN NoInvocation ELSE Locals
  /\ pc' = other.pc
  /\ value' = other.value
  /\ submission' = other.submission
  /\ subTrack' = other.subTrack
  /\ sub' = other.sub
  /\ outcome' = other.outcome
  /\ requests' = other.requests
  /\ UNCHANGED <<m2m, handled, replays, updates, owed>>

\* The consumer that does not wait for handle to end: beside a waiting
\* invocation, handle is called with the events of InterleavedValues.
InterleavedNext ==
  \/ \E v \in Values :
       (other.pc = "idle" \/ v \in InterleavedValues) /\ Handle(v)
  \/ \E where \in {"getSubTrack", "handle"} : TokenAnswer(where)
  \/ \E where \in {"getSubTrack", "handle"} : SubmissionAnswer(where)
  \/ ChallengeAnswer
  \/ ReviewScoreAnswer
  \/ FinalScoreAnswer
  \/ Settled
  \/ Switch

InterleavedSpec == Init /\ [][InterleavedNext]_vars

\* What is certain to be answered.  The GET of line 62 goes through the client
\* of lines 49-52, created with timeout: config.SUBMISSION_TIMEOUT, so a
\* service that stays silent is answered for by the timer, as a failed
\* request.  The token provider and the store are taken to answer.  The GET
\* of line 92 is sent with the axios module itself, which has no timeout: it
\* is answered when the challenge service answers, and no sooner.
Fairness ==
  /\ \A where \in {"getSubTrack", "handle"} : WF_vars(TokenAnswer(where))
  /\ \A where \in {"getSubTrack", "handle"} : WF_vars(SubmissionAnswer(where))
  /\ WF_vars(ReviewScoreAnswer)
  /\ WF_vars(FinalScoreAnswer)
  /\ WF_vars(Settled)

FairSpec == Spec /\ Fairness

TypeOK ==
  /\ m2m \in BOOLEAN
  /\ pc \in {"idle", "done", "getSubTrack.token", "getSubTrack.submission",
             "getSubTrack.challenge", "handle.token", "handle.submission",
             "updateReviewScore", "updateFinalScore"}
  /\ value \in Values
  /\ outcome \in {"pending", "returned", "TypeError",
                  "legacySubmissionId not found", "store error"}
  /\ handled \in 0..MaxEvents
  /\ replays \in 0..handled
  /\ updates \in 0..handled
  /\ owed \in 0..handled
  /\ other.pc \notin {"done"}
  /\ other.pc # "idle" => other.value \in InterleavedValues

\* ------------------------------------------------------------------- claims

ReviewCalls(reqs) == CallsTo(reqs, "updateReviewScore")
FinalCalls(reqs) == CallsTo(reqs, "LegacySubmissionIdService.updateReviewScore")
StoreCalls(reqs) == ReviewCalls(reqs) \cup FinalCalls(reqs)
SubmissionFetches(reqs) == CallsTo(reqs, "GET /submissions")

\* handle has ended, and how.
Ended == pc = "done"
Faulted == outcome \in {"TypeError", "legacySubmissionId not found", "store error"}

\* The submission fetch handle makes itself, after the challenge request, if
\* it made one: the set of its places in the log.
SecondFetch(reqs) ==
  {i \in SubmissionFetches(reqs) :
     \E j \in CallsTo(reqs, "GET challenge") : j < i}

\* C1: in every reachable state, every store update call of the invocation
\* was made for an event whose resource is 'review' or 'reviewSummation' and
\* for which the challenge service answered a SubTrack of the allow-set.
C1_MutationOnlyForAllowedSubTrack ==
  StoreCalls(requests) # {} =>
    /\ IsEvent(value)
    /\ ResourceOf(value) \in {Str("review"), Str("reviewSummation")}
    /\ AnsweredSubTrack(requests) \in AllowedSubTracks

\* C1 witness: a store update has been called for an event of the second
\* SubTrack of the list, the one the list holds behind a blank.
C1_Witness ==
  /\ StoreCalls(requests) # {}
  /\ AnsweredSubTrack(requests) = Chars(DEVELOP_MARATHON_MATCH)

\* C2: when handle has ended for an admitted 'review' event whose SubTrack
\* was answered in the allow-set and whose typeId is in PAYLOAD_TYPES, it has
\* made exactly one review-score update call, with that event, and no
\* final-score update call.
C2_ReviewScoreUpdatedOnce ==
  (Ended /\ ScoringReview(value, requests)) =>
    /\ Cardinality(ReviewCalls(requests)) = 1
    /\ \A i \in ReviewCalls(requests) : requests[i].event = value.json
    /\ FinalCalls(requests) = {}

\* C2 witness: such an event from the update-submission topic, with the type
\* id PAYLOAD_TYPES holds behind a blank, has been handled.
C2_Witness ==
  /\ Ended
  /\ ScoringReview(value, requests)
  /\ value.json.obj.topic = Str(KAFKA_UPDATE_SUBMISSION_TOPIC)
  /\ TypeIdOf(value) = Chars(TYPE_FINAL)
  /\ ReviewCalls(requests) # {}

\* C3: when handle has ended for an admitted 'reviewSummation' event of the
\* new-submission topic whose SubTrack was answered in the allow-set and whose
\* second submission fetch gave a record with a legacySubmissionId, it has
\* made exactly one final-score update call, keyed on that legacySubmissionId,
\* with payload.aggregateScore and the field name 'finalScore', and no
\* review-score update call.
C3_FinalScoreUpdatedOnce ==
  (Ended /\ ScoringSummation(value, requests)) =>
    /\ Cardinality(FinalCalls(requests)) = 1
    /\ \A i \in FinalCalls(requests) : \A j \in SecondFetch(requests) :
         /\ requests[i].legacySubmissionId =
              requests[j].answer.data.obj.legacySubmissionId
         /\ requests[i].score = Field(value.json.obj.payload, "aggregateScore")
         /\ requests[i].field = "finalScore"
    /\ ReviewCalls(requests) = {}

\* C3 witness: the scenario of the specification, aggregateScore 87.5, with
\* the first fetch giving the record 9001 and the second the record 9002.
C3_Witness ==
  /\ Ended
  /\ value = Json(SummationEvent)
  /\ ScoringSummation(value, requests)
  /\ \E i \in FinalCalls(requests) :
       /\ requests[i].score = Num(875)
       /\ requests[i].legacySubmissionId = Whole(9002)
  /\ \E i \in SubmissionFetches(requests) :
       requests[i].answer = Data(Obj([id |-> Whole(42), challengeId |-> Whole(30054),
                                      legacySubmissionId |-> Whole(9001)]))

\* On the reviewSummation path: an admitted 'reviewSummation' event of the
\* new-submission topic with a SubTrack of the allow-set.
SummationPath(v, reqs) ==
  /\ Admitted(v)
  /\ v.json.obj.topic = Str(KAFKA_NEW_SUBMISSION_TOPIC)
  /\ ResourceOf(v) = Str("reviewSummation")
  /\ AnsweredSubTrack(reqs) \in AllowedSubTracks

\* The second fetch gave a record, and the record has no legacySubmissionId.
RecordWithoutLegacyId(reqs) ==
  \E i \in SecondFetch(reqs) :
    /\ "data" \in DOMAIN reqs[i].answer
    /\ "legacySubmissionId" \notin DOMAIN reqs[i].answer.data.obj

\* C4: when handle has ended on the reviewSummation path with a fetched
\* record that has no legacySubmissionId, it has thrown to its caller and has
\* made no store update call.
C4_MissingLegacyIdFaults ==
  (Ended /\ SummationPath(value, requests) /\ RecordWithoutLegacyId(requests)) =>
    /\ Faulted
    /\ StoreCalls(requests) = {}

\* C4 witness: handle has thrown 'legacySubmissionId not found'.
C4_Witness ==
  /\ Ended
  /\ SummationPath(value, requests)
  /\ RecordWithoutLegacyId(requests)
  /\ outcome = "legacySubmissionId not found"

\* The enrichment calls of the log, and one of them failing on the network or
\* with an answer outside 2xx.
EnrichmentCalls(reqs) == SubmissionFetches(reqs) \cup CallsTo(reqs, "GET challenge")
EnrichmentFailed(reqs) ==
  \E i \in EnrichmentCalls(reqs) :
    reqs[i].answer \in {Failed("response"), Failed("request")}

\* C5: when handle has ended and one of its enrichment calls (the SubTrack
\* resolution's two requests, the second submission fetch) had failed, handle
\* has not thrown to its caller and has made no store update call.
C5_EnrichmentFailureRecovered ==
  (Ended /\ EnrichmentFailed(requests)) =>
    /\ ~Faulted
    /\ StoreCalls(requests) = {}

\* The message values handle is to skip: no value, no JSON, JSON of a falsy
\* value, JSON of something that is no object, and the events that break the
\* schema.
MalformedValues ==
  {NoValue, Text(""), Text("{\"topic\":")}
  \cup {Json(v) : v \in {Null, Bool(FALSE), Whole(0), Str("")}}
  \cup {Json(v) : v \in {Bool(TRUE), Whole(42), Str("review"), Arr(<<>>), Obj(<<>>)}}
  \cup {Json(e) : e \in Defects(ReviewEvent) \cup Defects(SummationEvent)}

\* C6: once handle was given a malformed value it has ended at once: it has
\* returned, not thrown, with no outbound call made, enrichment or store.
C6_MalformedInputDropped ==
  (handled > 0 /\ value \in MalformedValues) =>
    /\ pc \in {"done", "idle"}
    /\ requests = <<>>
    /\ ~Faulted
    /\ (Ended => outcome = "returned")

\* C6 witness: the summation event with a score of 100.1 has been skipped.
C6_Witness ==
  /\ Ended
  /\ value = Json(WithPayload(SummationEvent, "score", Num(1001)))
  /\ outcome = "returned"
  /\ requests = <<>>

\* An event of another topic, of another originator, or about a submission.
Irrelevant(v) ==
  /\ "json" \in DOMAIN v
  /\ IsObject(v.json)
  /\ \/ Field(v.json, "topic") \notin
          {Str(KAFKA_NEW_SUBMISSION_TOPIC), Str(KAFKA_UPDATE_SUBMISSION_TOPIC)}
     \/ Field(v.json, "originator") # Str(KAFKA_NEW_SUBMISSION_ORIGINATOR)
     \/ Field(Field(v.json, "payload"), "resource") = Str("submission")

\* C7: for an event of another topic, of another originator or with the
\* resource 'submission', handle makes no store update call and does not
\* throw.
C7_IrrelevantEventNeverMutates ==
  (handled > 0 /\ Irrelevant(value)) =>
    /\ StoreCalls(requests) = {}
    /\ pc \notin {"updateReviewScore", "updateFinalScore"}
    /\ ~Faulted
    /\ (Ended => outcome = "returned")

\* C7 witness: a review event that only its originator keeps from the store
\* has been handled.
C7_Witness ==
  /\ Ended
  /\ value = Json(Event(KAFKA_NEW_SUBMISSION_TOPIC, "review-api",
                         Payload(Str("review"), Chars(TYPE_FINAL))))
  /\ outcome = "returned"

\* C8: when handle has ended for an admitted event that is not about a
\* submission and the SubTrack resolution gave nothing, or a SubTrack outside
\* the allow-set, handle has returned without a store update call and without
\* a submission fetch after the resolution's own.
C8_UnresolvedSubTrackDropped ==
  (/\ Ended
   /\ Admitted(value)
   /\ ResourceOf(value) # Str("submission")
   /\ AnsweredSubTrack(requests) \notin AllowedSubTracks) =>
    /\ outcome = "returned"
    /\ StoreCalls(requests) = {}
    /\ SecondFetch(requests) = {}
    /\ Cardinality(SubmissionFetches(requests)) <= 1

\* C8 witness: the summation event has been dropped, the submission service
\* having given no answer.
C8_Witness ==
  /\ Ended
  /\ value = Json(SummationEvent)
  /\ \E i \in SubmissionFetches(requests) : requests[i].answer = Failed("request")
  /\ CallsTo(requests, "GET challenge") = {}
  /\ outcome = "returned"

\* C9: when handle has ended for an admitted 'review' event with a SubTrack of
\* the allow-set whose typeId is absent or outside PAYLOAD_TYPES, it has
\* returned without a store update call.
C9_InvalidTypeIdDropped ==
  (/\ Ended
   /\ Admitted(value)
   /\ ResourceOf(value) = Str("review")
   /\ AnsweredSubTrack(requests) \in AllowedSubTracks
   /\ TypeIdOf(value) \notin AllowedTypeIds) =>
    /\ outcome = "returned"
    /\ StoreCalls(requests) = {}

\* C9 witness: a review event with a type id outside the list has been dropped
\* after its SubTrack was found in the allow-set.
C9_Witness ==
  /\ Ended
  /\ Admitted(value)
  /\ ResourceOf(value) = Str("review")
  /\ AnsweredSubTrack(requests) \in AllowedSubTracks
  /\ TypeIdOf(value) = Chars(TYPE_OTHER)
  /\ outcome = "returned"

\* C10: between invocations, the number of store update calls made so far is
\* the number of invocations that handled a mutating event, the same event
\* delivered again counting each time.
C10_NoDeduplication ==
  pc \in {"done", "idle"} => updates = owed

\* C10 witness: the same mutating event has been handled twice in a row, and
\* two store update calls have been made.
C10_Witness ==
  /\ Ended
  /\ handled = 2
  /\ replays = 2
  /\ owed = 2
  /\ updates = 2

\* C11 as the spec states it: in every reachable state, no two calls of the
\* invocation are calls to the same service.
C11_EveryCallOnce ==
  \A i, j \in DOMAIN requests : i < j => requests[i].call # requests[j].call

\* C11: in every reachable state, when the invocation has called the same
\* service twice, the service is the token provider or the submission
\* service, the first of the two calls was answered without a failure, and
\* the challenge request lies between the two: no call is made again after
\* it failed, the challenge request and the store updates are made at most
\* once, and the submission is fetched a second time only by handle itself.
C11_NoCallRepeatedAfterFailure ==
  \A i, j \in DOMAIN requests :
    (i < j /\ requests[i].call = requests[j].call) =>
      /\ requests[i].call \in {"getMachineToken", "GET /submissions"}
      /\ "data" \in DOMAIN requests[i].answer
      /\ \E k \in CallsTo(requests, "GET challenge") : i < k /\ k < j

\* C11 witness: handle has ended after its own submission fetch, the second
\* of the invocation, failed, and there was no third.
C11_Witness ==
  /\ Ended
  /\ Cardinality(SubmissionFetches(requests)) = 2
  /\ requests[Len(requests)].call = "GET /submissions"
  /\ "error" \in DOMAIN requests[Len(requests)].answer

\* The keys eventSchema names, at the top level and in the payload.
SchemaKeys == {"topic", "originator", "timestamp", "mime-type", "payload"}
PayloadSchemaKeys ==
  {"id", "resource", "challengeId", "memberId", "submissionPhaseId", "url",
   "type", "legacySubmissionId", "isExample", "typeId", "score", "metadata"}

\* An admitted event that is not dropped as a 'submission' is being handled,
\* or handle has ended for it.
Enriching ==
  /\ pc # "idle"
  /\ Admitted(value)
  /\ ResourceOf(value) # Str("submission")

\* C12 as the spec states it: in every reachable state, the calls of the
\* invocation were made from an event that holds the schema's keys only: the
\* event handed to the review-score update has no other key at the top level
\* or in its payload, and the submission fetch, whose id is payload.submissionId,
\* a key the schema does not name, was made without an id.
C12_UnknownFieldsStripped ==
  /\ \A i \in ReviewCalls(requests) :
       /\ DOMAIN requests[i].event.obj \subseteq SchemaKeys
       /\ DOMAIN requests[i].event.obj.payload.obj \subseteq PayloadSchemaKeys
  /\ \A i \in SubmissionFetches(requests) : IsUndefined(requests[i].id)

\* C12: in every reachable state of an invocation for an admitted event that
\* is not a 'submission', whatever keys outside the schema the event carries,
\* the event was not rejected (the enrichment has been called) and the calls
\* were made from the event as it was received: the submission fetches with
\* payload.submissionId, the review-score update with the whole event, the
\* final-score update with payload.aggregateScore.
C12_UnknownFieldsKeptAndRouted ==
  Enriching =>
    /\ requests # <<>>
    /\ \A i \in SubmissionFetches(requests) :
         requests[i].id = Field(value.json.obj.payload, "submissionId")
    /\ \A i \in ReviewCalls(requests) : requests[i].event = value.json
    /\ \A i \in FinalCalls(requests) :
         requests[i].score = Field(value.json.obj.payload, "aggregateScore")

\* C12 witness: the review-score update has been called with an event that
\* carries a key the schema does not name at the top level and two in its
\* payload.
C12_Witness ==
  /\ Ended
  /\ \E i \in ReviewCalls(requests) :
       /\ "key" \in DOMAIN requests[i].event.obj
       /\ {"submissionId", "aggregateScore"} \subseteq
            DOMAIN requests[i].event.obj.payload.obj

\* C13: in every reachable state, when the invocation has made an outbound
\* call (the token request, a submission fetch, the challenge request or any
\* later one), its message parsed to an event the schema accepts, of an
\* accepted topic, of the configured originator, and not of the resource
\* 'submission': a message dropped at one of these stages has caused no call.
C13_NoCallBeforeChecksPassed ==
  requests # <<>> =>
    /\ Admitted(value)
    /\ ResourceOf(value) # Str("submission")

\* C13 witness: the first outbound call of an invocation, the token request,
\* is awaited for an event with no resource, all five checks passed.
C13_Witness ==
  /\ pc = "getSubTrack.token"
  /\ Len(requests) = 1
  /\ requests[1] = TokenRequest
  /\ Admitted(value)
  /\ IsUndefined(ResourceOf(value))

\* A message dropped at the last of the five checks: handle has ended for an
\* admitted 'submission' event without a call.
C13_Dropped ==
  /\ Ended
  /\ Admitted(value)
  /\ ResourceOf(value) = Str("submission")
  /\ requests = <<>>

\* C14: in every reachable state of an invocation for an admitted
\* 'reviewSummation' event of the update-submission topic, whatever the
\* SubTrack and the record the services answered, there is no store update
\* call, no fault and no submission fetch but the one of getSubTrack; when
\* handle has ended, it has returned.
C14_SummationOnUpdateTopicIgnored ==
  (/\ Enriching
   /\ value.json.obj.topic = Str(KAFKA_UPDATE_SUBMISSION_TOPIC)
   /\ ResourceOf(value) = Str("reviewSummation")) =>
    /\ StoreCalls(requests) = {}
    /\ ~Faulted
    /\ SecondFetch(requests) = {}
    /\ Cardinality(SubmissionFetches(requests)) <= 1
    /\ Ended => outcome = "returned"

\* C14 witness: handle has returned for such an event, its SubTrack answered
\* in the allow-set and its submission record carrying a legacySubmissionId.
C14_Witness ==
  /\ Ended
  /\ Admitted(value)
  /\ value.json.obj.topic = Str(KAFKA_UPDATE_SUBMISSION_TOPIC)
  /\ ResourceOf(value) = Str("reviewSummation")
  /\ AnsweredSubTrack(requests) \in AllowedSubTracks
  /\ \E i \in SubmissionFetches(requests) :
       /\ "data" \in DOMAIN requests[i].answer
       /\ "legacySubmissionId" \in DOMAIN requests[i].answer.data.obj
  /\ outcome = "returned"

\* The store update calls of the log that failed.
FailedStoreCalls(reqs) ==
  {i \in StoreCalls(reqs) : "error" \in DOMAIN reqs[i].answer}

\* C15: when handle has ended after a store update call failed, the failure
\* has left handle as a fault, and that call is the only store update call of
\* the invocation.
C15_StoreFailurePropagates ==
  (Ended /\ FailedStoreCalls(requests) # {}) =>
    /\ outcome = "store error"
    /\ Cardinality(StoreCalls(requests)) = 1

\* C15 witness: the review-score update of an invocation has failed and
\* handle has ended with the fault.
C15_Witness ==
  /\ Ended
  /\ FailedStoreCalls(requests) # {}
  /\ FailedStoreCalls(requests) \subseteq ReviewCalls(requests)
  /\ outcome = "store error"

\* handle is at one of its awaits.
Awaiting == pc \notin {"idle", "done"}

\* C16: under FairSpec, where the calls with a timeout and the calls to the
\* token provider and the store are answered, every invocation of handle that
\* is at an await eventually ends, whatever the HTTP services do.
C16_HandleTerminates == Awaiting ~> Ended

\* How an invocation ends, read off its own message and the answers to its
\* own calls: a failed store update and a summation whose second fetch gave
\* no record, or one without a legacySubmissionId, are faults; all else
\* returns.
ExpectedOutcome(v, reqs) ==
  IF ~(Admitted(v) /\ ResourceOf(v) # Str("submission")) THEN "returned"
  ELSE IF FailedStoreCalls(reqs) # {} THEN "store error"
  ELSE IF /\ v.json.obj.topic = Str(KAFKA_NEW_SUBMISSION_TOPIC)
          /\ ResourceOf(v) = Str("reviewSummation")
          /\ AnsweredSubTrack(reqs) \in AllowedSubTracks
  THEN IF \A i \in SecondFetch(reqs) : "data" \notin DOMAIN reqs[i].answer
       THEN "TypeError"
       ELSE IF HasLegacyId(reqs) THEN "returned"
       ELSE "legacySubmissionId not found"
  ELSE "returned"

\* The first submission fetch of the log was answered with a record.
FirstFetchAnswered(reqs) ==
  \E i \in SubmissionFetches(reqs) :
    /\ \A j \in SubmissionFetches(reqs) : i <= j
    /\ "data" \in DOMAIN reqs[i].answer

\* C17: whenever handle has ended, be it the first invocation or a later
\* one, alone or with another invocation for the same submission waiting at
\* an await, (a) an admitted event that is not a 'submission' has had its own
\* submission fetch, unless the token for it was refused, and, when the fetch
\* gave a record, its own challenge request,
\* (b) a store update was called exactly when the event with the answers to
\* its own calls is a mutating one, and (c) handle returned or threw as its own
\* message and those answers say.
C17_NoStateAcrossEvents ==
  Ended =>
    /\ (Admitted(value) /\ ResourceOf(value) # Str("submission")) =>
         /\ requests # <<>>
         /\ \/ SubmissionFetches(requests) # {}
            \/ (requests[1].call = "getMachineToken"
                /\ "error" \in DOMAIN requests[1].answer)
         /\ FirstFetchAnswered(requests) =>
              CallsTo(requests, "GET challenge") # {}
    /\ StoreCalls(requests) # {} <=> Scoring(value, requests)
    /\ outcome = ExpectedOutcome(value, requests)

\* C17 witness: the second invocation has ended with a store update while
\* the first, for another event of the same submission, still waits for the
\* answer to its own challenge request, each having fetched the submission.
C17_Witness ==
  /\ Ended
  /\ handled = 2
  /\ StoreCalls(requests) # {}
  /\ other.pc = "getSubTrack.challenge"
  /\ other.value # value
  /\ \E i \in SubmissionFetches(requests) :
       \E j \in SubmissionFetches(other.requests) :
         requests[i].id = other.requests[j].id

\* C18: in every reachable state of an invocation for an admitted event whose
\* payload has no resource, the event has passed the resource check (the
\* enrichment has been called), and whatever SubTrack and type id it has there
\* is no store update call, no fault and no second submission fetch; when
\* handle has ended, it has returned.
C18_NoResourceDroppedImplicitly ==
  (/\ pc # "idle"
   /\ Admitted(value)
   /\ IsUndefined(ResourceOf(value))) =>
    /\ requests # <<>>
    /\ StoreCalls(requests) = {}
    /\ SecondFetch(requests) = {}
    /\ ~Faulted
    /\ Ended => outcome = "returned"

\* C18 witness: handle has returned for an event without a resource but with
\* a type id of PAYLOAD_TYPES, its SubTrack answered in the allow-set.
C18_Witness ==
  /\ Ended
  /\ Admitted(value)
  /\ IsUndefined(ResourceOf(value))
  /\ TypeIdOf(value) = Chars(TYPE_FINAL)
  /\ AnsweredSubTrack(requests) \in AllowedSubTracks
  /\ outcome = "returned"

\* C19: in every reachable state, the invocation has made at most one store
\* update call: never a review-score update and a final-score update both,
\* and neither of them twice.
C19_AtMostOneStoreCall ==
  /\ Cardinality(StoreCalls(requests)) <= 1
  /\ ReviewCalls(requests) = {} \/ FinalCalls(requests) = {}

\* C19 witness: with an m2m, handle has returned for the summation event
\* after its one store call, the final-score update, was answered.
C19_Witness ==
  /\ Ended
  /\ m2m
  /\ value = Json(SummationEvent)
  /\ Cardinality(FinalCalls(requests)) = 1
  /\ requests[Len(requests)].call = "LegacySubmissionIdService.updateReviewScore"
  /\ requests[Len(requests)].answer = Data(Undefined)
  /\ outcome = "returned"

\* C20: in every reachable state, every challenge request of the invocation
\* comes after a submission fetch that was answered with a record; and when
\* handle has ended for an event whose first submission fetch was not (it
\* failed, or the token for it was refused), there is no challenge request and
\* the subTrack handle was given is undefined.
C20_ChallengeOnlyAfterRecord ==
  /\ \A k \in CallsTo(requests, "GET challenge") :
       \E i \in SubmissionFetches(requests) :
         i < k /\ "data" \in DOMAIN requests[i].answer
               /\ IsObject(requests[i].answer.data)
  /\ (Ended /\ requests # <<>> /\ ~FirstFetchAnswered(requests)) =>
       /\ CallsTo(requests, "GET challenge") = {}
       /\ IsUndefined(subTrack)

\* C20 witness: handle has ended for the review event after the submission
\* service answered its fetch outside 2xx: no challenge request, no subTrack.
C20_Witness ==
  /\ Ended
  /\ value = Json(ReviewEvent)
  /\ \E i \in SubmissionFetches(requests) : requests[i].answer = Failed("response")
  /\ CallsTo(requests, "GET challenge") = {}
  /\ IsUndefined(subTrack)

====
